---- MODULE Spec2Model ----
(***************************************************************************)
(* Elering price integration: the coordinator (day-window cache, wall-clock *)
(* scheduler, row normalisation, hourly averaging), the config-entry        *)
(* lifecycle and the four sensors.                                          *)
(*                                                                          *)
(* Time is in whole seconds since the epoch (int(datetime.timestamp())).    *)
(* Prices are integers in units of 1e-5 EUR/MWh, the precision the          *)
(* coordinator rounds to; sensor values are integers in units of 1e-2.      *)
(* A Python dict or Optional that is empty/None is the empty set, and one   *)
(* that holds a value is the singleton of that value.                       *)
(***************************************************************************)
EXTENDS Integers, Sequences, FiniteSets, TLC

VARIABLES
    now,            \* wall clock, seconds since the epoch (UTC)
    api_good,       \* TRUE once the price API answers every request with valid rows
    entry_state,    \* host's state of the config entry
    hass_data,      \* hass.data[DOMAIN]: entry id -> dict
    sensor_setup,   \* outcome of the sensor platform's async_setup_entry
    entities,       \* sensor entities registered with the host
    listeners,      \* hass's active time-change subscriptions for _on_tick
    country,        \* EleringCoordinator._country
    vat_percent,    \* the percent behind EleringCoordinator._vat_factor
    cache,          \* EleringCoordinator._cache
    cache_window,   \* EleringCoordinator._cache_window
    unsub_timer,    \* EleringCoordinator._unsub_timer
    data,           \* DataUpdateCoordinator.data
    call,           \* history: the last _async_update_data call of this coordinator
    fetched,        \* history: results of this coordinator's successful HTTP fetches
    tick,           \* history: the last wall-clock tick
    sched_op,       \* history: the last start_scheduler / stop_scheduler call
    fn_in,          \* argument of the pure function under test
    fn_out          \* its result

vars == <<now, api_good, entry_state, hass_data, sensor_setup, entities, listeners,
          country, vat_percent, cache, cache_window, unsub_timer, data,
          call, fetched, tick, sched_op, fn_in, fn_out>>

(* ------------------------------ bounds ------------------------------- *)
MaxQuarters == 10
GrainsPerQuarter == 2
MaxRows == 2
MaxQuarterRows == 4
MaxProbeHours == 50

(* ------------------------- program constants ------------------------- *)
DaySecs == 86400
HourSecs == 3600
QuarterSecs == 900
BoundaryHour == 22
DefaultVat == 24
HttpOk == 200
PriceDecimals == 5
ValueDecimals == 2

ENTRY_ID == "entry1"
None == {}

\* the model starts at 21:00:00Z of day 0, an hour before a window boundary
StartTs == 21 * HourSecs
MaxNow == StartTs + MaxQuarters * QuarterSecs
Grain == QuarterSecs \div GrainsPerQuarter

(* --------------------------- arithmetic ------------------------------ *)
RECURSIVE Pow10(_)
Pow10(n) == IF n = 0 THEN 1 ELSE 10 * Pow10(n - 1)

\* round(n / d) to the nearest integer, ties to the even one (d > 0)
RoundDiv(n, d) ==
    LET q == n \div d
        r == n - q * d
    IN  IF 2 * r < d THEN q
        ELSE IF 2 * r > d THEN q + 1
        ELSE IF q % 2 = 0 THEN q ELSE q + 1

\* int(x) of a float given in thousandths: truncation towards zero
TruncMilli(m) == IF m >= 0 THEN m \div 1000 ELSE -((-m) \div 1000)

(* ------------------------ _day_bounds_22utc -------------------------- *)
Today22(now_utc) == (now_utc \div DaySecs) * DaySecs + BoundaryHour * HourSecs

day_bounds_22utc_le(now_utc) ==
    LET today_22 == Today22(now_utc)
    IN  IF now_utc <= today_22
        THEN <<today_22 - DaySecs, today_22>>
        ELSE <<today_22, today_22 + DaySecs>>

day_bounds_22utc(now_utc) ==
    LET today_22 == Today22(now_utc)
    IN  IF now_utc < today_22
        THEN <<today_22 - DaySecs, today_22>>
        ELSE <<today_22, today_22 + DaySecs>>

(* ------------------------- JSON values -------------------------------- *)
\* A JSON value, by what the normalisation can tell apart.  Timestamp kinds:
\*   "int" (v seconds), "float" (v thousandths of a second), "bool" (v 0/1),
\*   "inf" (a float too large for a finite value, or NaN), "digits" (an ASCII
\*   digit string of value v), "udigits" (a string of non-ASCII digits such as
\*   a superscript two: str.isdigit() accepts it, int() does not), "iso" (an
\*   ISO-8601 string denoting second v), "text", "list", "null".
\* Price kinds: "num" and "numstr" (v in 1e-5 EUR/MWh), "text", "list", "null".
Val(t, v) == [t |-> t, v |-> v]
Null == Val("null", 0)

\* row.get(key) for a mapping row; None (Null) for an absent key
RowGet(row, key) == IF key \in DOMAIN row.f THEN row.f[key] ELSE Null

\* lines 145-155: ts from ts_raw; int() raises on inf/NaN and on non-ASCII digits
ParseTs(ts_raw) ==
    CASE ts_raw.t \in {"int", "bool"} -> [raised |-> FALSE, ts |-> {ts_raw.v}]
      [] ts_raw.t = "float"           -> [raised |-> FALSE, ts |-> {TruncMilli(ts_raw.v)}]
      [] ts_raw.t = "inf"             -> [raised |-> TRUE,  ts |-> None]
      [] ts_raw.t = "digits"          -> [raised |-> FALSE, ts |-> {ts_raw.v}]
      [] ts_raw.t = "udigits"         -> [raised |-> TRUE,  ts |-> None]
      [] ts_raw.t = "iso"             -> [raised |-> FALSE, ts |-> {ts_raw.v}]
      [] OTHER                        -> [raised |-> FALSE, ts |-> None]

\* lines 168-171: float(price_raw), None (the empty set) when it raises
PyFloat(price_raw) ==
    IF price_raw.t \in {"num", "numstr"} THEN {price_raw.v} ELSE None

\* line 173: round(price * (1.0 + vat_percent / 100.0), 5)
PriceVat(price, vat) == RoundDiv(price * (100 + vat), 100)

\* lines 139-174 for one row: "raise", "skip" or the entry to append
NormalizeRow(row, ctry, vat) ==
    LET ts_raw0 == IF row.dict THEN RowGet(row, "timestamp") ELSE Null
        ts_raw  == IF ts_raw0 = Null /\ row.dict THEN RowGet(row, "ts") ELSE ts_raw0
        parsed  == ParseTs(ts_raw)
        p0      == IF row.dict THEN RowGet(row, ctry) ELSE Null
        price_raw == IF row.dict /\ p0 = Null THEN RowGet(row, "price") ELSE p0
        price   == PyFloat(price_raw)
    IN  IF parsed.raised THEN [kind |-> "raise", q |-> None]
        ELSE IF parsed.ts = None THEN [kind |-> "skip", q |-> None]
        ELSE IF price_raw = Null THEN [kind |-> "skip", q |-> None]
        ELSE IF price = None THEN [kind |-> "skip", q |-> None]
        ELSE [kind |-> "append",
              q |-> {[ts |-> CHOOSE t \in parsed.ts : TRUE,
                      price |-> PriceVat(CHOOSE p \in price : TRUE, vat)]}]

\* lines 138-174: the loop over rows; an uncaught exception ends it
RECURSIVE ScanRows(_, _, _, _, _)
ScanRows(rows, i, quarters, ctry, vat) ==
    IF i > Len(rows) THEN [raised |-> FALSE, quarters |-> quarters]
    ELSE LET r == NormalizeRow(rows[i], ctry, vat)
         IN  IF r.kind = "raise" THEN [raised |-> TRUE, quarters |-> quarters]
             ELSE IF r.kind = "skip" THEN ScanRows(rows, i + 1, quarters, ctry, vat)
             ELSE ScanRows(rows, i + 1,
                           Append(quarters, CHOOSE q \in r.q : TRUE), ctry, vat)

\* line 176: quarters.sort(key=ts), a stable sort
RECURSIVE InsertByTs(_, _)
InsertByTs(sorted, q) ==
    IF sorted = <<>> THEN <<q>>
    ELSE IF sorted[Len(sorted)].ts <= q.ts THEN Append(sorted, q)
    ELSE Append(InsertByTs(SubSeq(sorted, 1, Len(sorted) - 1), q), sorted[Len(sorted)])

RECURSIVE SortByTsFrom(_, _, _)
SortByTsFrom(qs, i, sorted) ==
    IF i > Len(qs) THEN sorted
    ELSE SortByTsFrom(qs, i + 1, InsertByTs(sorted, qs[i]))

SortByTs(qs) == SortByTsFrom(qs, 1, <<>>)

RECURSIVE SumSeq(_)
SumSeq(s) == IF s = <<>> THEN 0 ELSE s[1] + SumSeq(Tail(s))

\* sum(bucket) / len(bucket), kept as the exact fraction
Mean(bucket) == [num |-> SumSeq(bucket), den |-> Len(bucket)]

HourOf(ts) == (ts \div HourSecs) * HourSecs

\* lines 183-192: one pass of the loop body; st = [cur_hour, bucket, hours]
HourStep(st, q) ==
    LET hts  == HourOf(q.ts)
        cur0 == IF st.cur_hour = None THEN {hts} ELSE st.cur_hour
        flush == {hts} # cur0
        hours1 == IF flush /\ st.bucket # <<>>
                  THEN Append(st.hours, [ts |-> CHOOSE h \in cur0 : TRUE,
                                         price |-> Mean(st.bucket)])
                  ELSE st.hours
        bucket1 == IF flush THEN <<>> ELSE st.bucket
    IN  [cur_hour |-> {hts}, bucket |-> Append(bucket1, q.price), hours |-> hours1]

RECURSIVE HourLoop(_, _, _)
HourLoop(quarters, i, st) ==
    IF i > Len(quarters) THEN st
    ELSE HourLoop(quarters, i + 1, HourStep(st, quarters[i]))

\* the loop without the flush after it (lines 193-194 left out)
HoursOfNoLastFlush(quarters) ==
    HourLoop(quarters, 1, [cur_hour |-> None, bucket |-> <<>>, hours |-> <<>>]).hours

\* lines 179-194: hourly means of the sorted quarters
HoursOf(quarters) ==
    IF quarters = <<>> THEN <<>>
    ELSE LET st == HourLoop(quarters, 1,
                            [cur_hour |-> None, bucket |-> <<>>, hours |-> <<>>])
         IN  IF st.bucket # <<>>
             THEN Append(st.hours, [ts |-> CHOOSE h \in st.cur_hour : TRUE,
                                    price |-> Mean(st.bucket)])
             ELSE st.hours

\* lines 138-203: rows -> result dict; raised when a row makes the loop raise.
\* The result's as_of stamp, which nothing in the integration reads back, is
\* left out; start_utc and end_utc are kept as the window's seconds.
BuildResult(rows, ctry, vat, win) ==
    LET scan == ScanRows(rows, 1, <<>>, ctry, vat)
        quarters == SortByTs(scan.quarters)
    IN  IF scan.raised THEN [raised |-> TRUE, result |-> None]
        ELSE [raised |-> FALSE,
              result |-> {[country |-> ctry,
                           start_utc |-> win[1], end_utc |-> win[2],
                           quarters |-> quarters, hours |-> HoursOf(quarters)]}]

(* ------------------------ price API responses ------------------------ *)
\* A response: err (transport error or timeout), status, is_json, and the
\* JSON payload by its shape: top ("dict", "list", "other"), the type of
\* payload["data"] ("list", "dict", "absent"), the key of the one list inside
\* a "data" dict, and the rows of the list.
Payload(top, d, key, rows) == [top |-> top, data |-> d, key |-> key, rows |-> rows]
\* label names what the API did, for the history only: no operation reads it.
Response(label, err, status, is_json, payload) ==
    [label |-> label, err |-> err, status |-> status, is_json |-> is_json,
     payload |-> payload]

MkRow(f) == [dict |-> TRUE, f |-> f]
NotAMapping == [dict |-> FALSE, f |-> [text |-> Null]]

\* lines 115-131 with rows = [] where the code has rows = None
ExtractRowsDefaultEmpty(payload, ctry) ==
    IF payload.top = "dict" /\ payload.data = "list" THEN {payload.rows}
    ELSE IF payload.top = "list" THEN {payload.rows}
    ELSE IF payload.top = "dict" /\ payload.data = "dict"
            /\ payload.key \in {"series", "records", "rows", ctry}
         THEN {payload.rows}
    ELSE {<<>>}

\* lines 115-131: the row list of variants A, B, C, or None
ExtractRows(payload, ctry) ==
    IF payload.top = "dict" /\ payload.data = "list" THEN {payload.rows}
    ELSE IF payload.top = "list" THEN {payload.rows}
    ELSE IF payload.top = "dict" /\ payload.data = "dict"
            /\ payload.key \in {"series", "records", "rows", ctry}
         THEN {payload.rows}
    ELSE None

(* ------------------------ _async_update_data -------------------------- *)
\* line 88 with the window left out of the test
UseCacheAnyWindow(c_cache, c_window, win) == c_cache # {}

\* line 88 with the test on the quarters list instead of the dict
UseCacheIfQuarters(c_cache, c_window, win) ==
    /\ \E res \in c_cache : res.quarters # <<>>
    /\ c_window = {win}

\* line 88: if self._cache and self._cache_window == win
UseCache(c_cache, c_window, win) == c_cache # {} /\ c_window = {win}

Outcome(outcome, http, cause, exc, ret, c_cache, c_window) ==
    [outcome |-> outcome, http |-> http, cause |-> cause, exc |-> exc,
     ret |-> ret, cache |-> c_cache, cache_window |-> c_window]

\* lines 82-212.  The coordinator fields come in, the outcome carries them out.
UpdateData(c_cache, c_window, ctry, vat, now_utc, resp) ==
    LET win  == day_bounds_22utc(now_utc)
        Fail(cause) == Outcome("failed", TRUE, cause, "UpdateFailed", None,
                               c_cache, c_window)
    IN  IF UseCache(c_cache, c_window, win)
        THEN Outcome("cached", FALSE, "", "", c_cache, c_cache, c_window)
        ELSE IF resp.err THEN Fail("transport")
        ELSE IF resp.status # HttpOk THEN Fail("status")
        ELSE IF ~resp.is_json THEN Fail("json")
        ELSE LET rows == ExtractRows(resp.payload, ctry)
             IN  IF rows = None THEN Fail("no_rows")
                 ELSE LET b == BuildResult(CHOOSE r \in rows : TRUE, ctry, vat, win)
                      IN  IF b.raised
                          THEN Outcome("raised", TRUE, "row", "ValueError", None,
                                       c_cache, c_window)
                          ELSE Outcome("ok", TRUE, "", "", b.result, b.result, {win})

(* ----------------------------- sensors -------------------------------- *)
\* round(x, 2) of a price in 1e-5 units, as hundredths
Round2(num, den) == RoundDiv(num, den * Pow10(PriceDecimals - ValueDecimals))

\* sensor.py lines 58-63: the last item with ts <= now_ts before the first later one
RECURSIVE LastNotAfter(_, _, _, _)
LastNotAfter(quarters, i, now_ts, q) ==
    IF i > Len(quarters) THEN q
    ELSE IF quarters[i].ts <= now_ts
         THEN LastNotAfter(quarters, i + 1, now_ts, {quarters[i]})
         ELSE q

QuartersOf(d) == IF d = None THEN <<>> ELSE (CHOOSE res \in d : TRUE).quarters
HoursOfData(d) == IF d = None THEN <<>> ELSE (CHOOSE res \in d : TRUE).hours

\* QuarterPriceMWh.native_value
QuarterPriceMWh(d, now_ts) ==
    {Round2(q.price, 1) : q \in LastNotAfter(QuartersOf(d), 1, now_ts, None)}

\* QuarterPriceSkWh.native_value: 1 EUR/MWh = 0.1 s/kWh
QuarterPriceSkWh(d, now_ts) ==
    {Round2(q.price, 10) : q \in LastNotAfter(QuartersOf(d), 1, now_ts, None)}

\* the first hours entry with ts == now_hour
RECURSIVE FirstHour(_, _, _)
FirstHour(hours, i, now_hour) ==
    IF i > Len(hours) THEN None
    ELSE IF hours[i].ts = now_hour THEN {hours[i]}
    ELSE FirstHour(hours, i + 1, now_hour)

\* HourlyAvgMWh.native_value
HourlyAvgMWh(d, now_ts) ==
    {Round2(h.price.num, h.price.den) : h \in FirstHour(HoursOfData(d), 1, HourOf(now_ts))}

\* HourlyAvgSkWh.native_value
HourlyAvgSkWh(d, now_ts) ==
    {Round2(h.price.num, h.price.den * 10) :
        h \in FirstHour(HoursOfData(d), 1, HourOf(now_ts))}

\* sensor.py lines 18-29: the platform's async_setup_entry
SensorSetupEntry(hd) ==
    LET d == (CHOOSE e \in hd : e.entry_id = ENTRY_ID).dict
    IN  IF "coordinator" \notin DOMAIN d \/ "country" \notin DOMAIN d
        THEN [raised |-> TRUE, ents |-> {}]
        ELSE [raised |-> FALSE,
              ents |-> {"elering_quarter_price_mwh", "elering_quarter_price_s_per_kwh",
                        "elering_hourly_avg_mwh", "elering_hourly_avg_s_per_kwh"}]

(* --------------------------- scheduler -------------------------------- *)
\* async_track_time_change: a new subscription, named by the least free handle
FreshHandle(lst) == CHOOSE h \in 0..Cardinality(lst) : h \notin lst

Sched(unsub, lst, op) == [unsub_timer |-> unsub, listeners |-> lst, op |-> op]

\* start_scheduler without the guard of lines 56-57
start_scheduler_unguarded(unsub, lst) ==
    LET h == FreshHandle(lst) IN Sched({h}, lst \cup {h}, "start")

\* coordinator.py lines 54-64
start_scheduler(unsub, lst) ==
    IF unsub # None THEN Sched(unsub, lst, "start_noop")
    ELSE LET h == FreshHandle(lst) IN Sched({h}, lst \cup {h}, "start")

\* coordinator.py lines 66-71
stop_scheduler(unsub, lst) ==
    IF unsub # None THEN Sched(None, lst \ unsub, "stop")
    ELSE Sched(unsub, lst, "stop_noop")

(* ------------------------ price API behaviour ------------------------- *)
\* The rows the API publishes for a window: the quarter-hours at these offsets
\* from the window's start: its first and its last hour, a quarter-hour missing
\* in each.
PublishedQuarters == {0, 1, 3, 4, 92, 93, 95}

RECURSIVE RowsAt(_, _, _)
RowsAt(offsets, win, ctry) ==
    IF offsets = {} THEN <<>>
    ELSE LET k == CHOOSE x \in offsets : \A y \in offsets : x >= y
         IN  Append(RowsAt(offsets \ {k}, win, ctry),
                    MkRow(("timestamp" :> Val("int", win[1] + k * QuarterSecs))
                          @@ (ctry :> Val("num", 4567891 + 100003 * k))))

ValidRows(win, ctry) == RowsAt(PublishedQuarters, win, ctry)

InvalidRows == <<NotAMapping, MkRow([timestamp |-> Val("text", 0)])>>
RaisingRows == <<MkRow([timestamp |-> Val("inf", 0)])>>

GoodResponses(win, ctry) ==
    { Response("rows", FALSE, HttpOk, TRUE, Payload("dict", "list", "", ValidRows(win, ctry))),
      Response("rows", FALSE, HttpOk, TRUE, Payload("list", "absent", "", ValidRows(win, ctry))),
      Response("rows", FALSE, HttpOk, TRUE, Payload("dict", "dict", ctry, ValidRows(win, ctry))) }

OtherResponses ==
    { Response("transport_error", TRUE, 0, FALSE, Payload("other", "absent", "", <<>>)),
      Response("http_error", FALSE, 500, FALSE, Payload("other", "absent", "", <<>>)),
      Response("not_json", FALSE, HttpOk, FALSE, Payload("other", "absent", "", <<>>)),
      Response("no_row_list", FALSE, HttpOk, TRUE, Payload("dict", "absent", "", <<>>)),
      Response("no_row_list", FALSE, HttpOk, TRUE, Payload("dict", "dict", "prices", <<>>)),
      Response("rows", FALSE, HttpOk, TRUE, Payload("dict", "list", "", <<>>)),
      Response("rows", FALSE, HttpOk, TRUE, Payload("dict", "list", "", InvalidRows)),
      Response("rows", FALSE, HttpOk, TRUE, Payload("list", "absent", "", RaisingRows)) }

\* what the API may answer to a request made at now_utc
Responses(now_utc, ctry, good) ==
    GoodResponses(day_bounds_22utc(now_utc), ctry)
        \cup (IF good THEN {} ELSE OtherResponses)

(* ------------------------------ state --------------------------------- *)
\* entry.data as the config flow stores it, or without its keys
EntryConfigs == { [country |-> None, vat |-> None], [country |-> {"ee"}, vat |-> {24}] }

NextQuarter(t) == ((t \div QuarterSecs) + 1) * QuarterSecs

\* the record of one _async_update_data call
CallRecord(r, t, pre, resp) ==
    [win |-> day_bounds_22utc(t), http |-> r.http, outcome |-> r.outcome,
     label |-> IF r.http THEN resp.label ELSE "none",
     cause |-> r.cause, exc |-> r.exc, ret |-> r.ret,
     prior |-> {res \in pre.fetched : <<res.start_utc, res.end_utc>> = day_bounds_22utc(t)},
     after_failure |-> \E c \in pre.call : c.outcome = "failed",
     pre_cache |-> pre.cache, pre_window |-> pre.cache_window]

\* a refresh of the coordinator whose fields are pre: _async_update_data, then
\* DataUpdateCoordinator keeps the result as data, or the old data on failure
Refresh(pre, t, resp) ==
    LET r == UpdateData(pre.cache, pre.cache_window, pre.country, pre.vat_percent, t, resp)
    IN  /\ cache' = r.cache
        /\ cache_window' = r.cache_window
        /\ data' = IF r.outcome \in {"ok", "cached"} THEN r.ret ELSE pre.data
        /\ call' = {CallRecord(r, t, pre, resp)}
        /\ fetched' = IF r.outcome = "ok" THEN pre.fetched \cup r.ret ELSE pre.fetched

Coordinator ==
    [cache |-> cache, cache_window |-> cache_window, country |-> country,
     vat_percent |-> vat_percent, data |-> data, call |-> call, fetched |-> fetched]

\* EleringCoordinator.__init__ (lines 31-38)
NewCoordinator(ctry, vat) ==
    [cache |-> {}, cache_window |-> None, country |-> ctry,
     vat_percent |-> vat, data |-> None, call |-> {}, fetched |-> {}]

InitProgram ==
    /\ now = StartTs
    /\ api_good = FALSE
    /\ entry_state = "not_loaded"
    /\ hass_data = {}
    /\ sensor_setup = "none"
    /\ entities = {}
    /\ listeners = {}
    /\ country = "ee"
    /\ vat_percent = DefaultVat
    /\ cache = {}
    /\ cache_window = None
    /\ unsub_timer = None
    /\ data = None
    /\ call = {}
    /\ fetched = {}
    /\ tick = {}
    /\ sched_op = "none"

Init ==
    /\ InitProgram
    /\ fn_in = <<>>
    /\ fn_out = {}

(* ----------------------------- actions -------------------------------- *)
\* __init__.py lines 16-34, with the first refresh and the platform setup
SetupEntry ==
    /\ entry_state \in {"not_loaded", "setup_retry"}
    /\ \E cfg \in EntryConfigs :
         LET ctry == IF cfg.country = None THEN "ee" ELSE CHOOSE c \in cfg.country : TRUE
             vat  == IF cfg.vat = None THEN DefaultVat ELSE CHOOSE v \in cfg.vat : TRUE
             coord == NewCoordinator(ctry, vat)
             hd   == {e \in hass_data : e.entry_id # ENTRY_ID}
                        \cup {[entry_id |-> ENTRY_ID, dict |-> [coordinator |-> "coord"]]}
         IN  \E resp \in Responses(now, ctry, api_good) :
               LET r == UpdateData(coord.cache, coord.cache_window, ctry, vat, now, resp)
                   s == start_scheduler(None, listeners)
                   p == SensorSetupEntry(hd)
               IN  /\ country' = ctry
                   /\ vat_percent' = vat
                   /\ hass_data' = hd
                   /\ Refresh(coord, now, resp)
                   /\ IF r.outcome \in {"ok", "cached"}
                      THEN /\ unsub_timer' = s.unsub_timer
                           /\ listeners' = s.listeners
                           /\ sched_op' = s.op
                           /\ sensor_setup' = IF p.raised THEN "raised" ELSE "ok"
                           /\ entities' = p.ents
                           /\ entry_state' = "loaded"
                      ELSE /\ unsub_timer' = None
                           /\ listeners' = listeners
                           /\ sched_op' = "none"
                           /\ sensor_setup' = "none"
                           /\ entities' = {}
                           /\ entry_state' = "setup_retry"
    /\ UNCHANGED <<now, api_good, tick, fn_in, fn_out>>

\* __init__.py lines 37-49
UnloadEntry ==
    /\ entry_state = "loaded"
    /\ LET has_coord == \E e \in hass_data :
                           e.entry_id = ENTRY_ID /\ "coordinator" \in DOMAIN e.dict
           s == IF has_coord THEN stop_scheduler(unsub_timer, listeners)
                ELSE Sched(unsub_timer, listeners, sched_op)
       IN  /\ unsub_timer' = s.unsub_timer
           /\ listeners' = s.listeners
           /\ sched_op' = s.op
           /\ \E unload_ok \in BOOLEAN :
                IF unload_ok
                THEN /\ hass_data' = {e \in hass_data : e.entry_id # ENTRY_ID}
                     /\ entities' = {}
                     /\ entry_state' = "not_loaded"
                ELSE /\ UNCHANGED <<hass_data, entities>>
                     /\ entry_state' = "failed_unload"
    /\ UNCHANGED <<now, api_good, sensor_setup, country, vat_percent, cache,
                   cache_window, data, call, fetched, tick, fn_in, fn_out>>

\* The wall clock reaches the next :00/:15/:30/:45; hass fires every active
\* subscription, and _on_tick (lines 73-77) requests a refresh for each.
Tick ==
    /\ NextQuarter(now) <= MaxNow
    /\ now' = NextQuarter(now)
    /\ tick' = {[active |-> unsub_timer # None,
                 requests |-> Cardinality(listeners)]}
    /\ IF listeners # {}
       THEN \E resp \in Responses(NextQuarter(now), country, api_good) :
                Refresh(Coordinator, NextQuarter(now), resp)
       ELSE UNCHANGED <<cache, cache_window, data, call, fetched>>
    /\ UNCHANGED <<api_good, entry_state, hass_data, sensor_setup, entities, listeners,
                   country, vat_percent, unsub_timer, sched_op, fn_in, fn_out>>

\* time passes between two ticks
AdvanceClock ==
    /\ now + Grain < NextQuarter(now)
    /\ now + Grain <= MaxNow
    /\ now' = now + Grain
    /\ UNCHANGED <<api_good, entry_state, hass_data, sensor_setup, entities, listeners,
                   country, vat_percent, cache, cache_window, unsub_timer, data,
                   call, fetched, tick, sched_op, fn_in, fn_out>>

\* from now on the API answers every request with valid rows
ApiRecovers ==
    /\ ~api_good
    /\ api_good' = TRUE
    /\ UNCHANGED <<now, entry_state, hass_data, sensor_setup, entities, listeners,
                   country, vat_percent, cache, cache_window, unsub_timer, data,
                   call, fetched, tick, sched_op, fn_in, fn_out>>

Next == SetupEntry \/ UnloadEntry \/ Tick \/ AdvanceClock \/ ApiRecovers

Spec == Init /\ [][Next]_vars

\* The wall clock keeps running and hass keeps firing the time listeners: the
\* steps that take the clock to the next quarter-hour are the Tick steps.
ClockReachesQuarter == NextQuarter(now) <= MaxNow /\ now' = NextQuarter(now)

LiveSpec == Spec /\ WF_now(ClockReachesQuarter)

(* ---------------- the coordinator alone, any call order --------------- *)
StartScheduler ==
    /\ LET s == start_scheduler(unsub_timer, listeners)
       IN  /\ unsub_timer' = s.unsub_timer
           /\ listeners' = s.listeners
           /\ sched_op' = s.op
    /\ UNCHANGED <<now, api_good, entry_state, hass_data, sensor_setup, entities,
                   country, vat_percent, cache, cache_window, data, call, fetched,
                   tick, fn_in, fn_out>>

StopScheduler ==
    /\ LET s == stop_scheduler(unsub_timer, listeners)
       IN  /\ unsub_timer' = s.unsub_timer
           /\ listeners' = s.listeners
           /\ sched_op' = s.op
    /\ UNCHANGED <<now, api_good, entry_state, hass_data, sensor_setup, entities,
                   country, vat_percent, cache, cache_window, data, call, fetched,
                   tick, fn_in, fn_out>>

NextSched == StartScheduler \/ StopScheduler \/ Tick \/ AdvanceClock

SpecSched == Init /\ [][NextSched]_vars

(* --------------------- _day_bounds_22utc on its own -------------------- *)
\* every whole hour from -MaxProbeHours to +MaxProbeHours, and the seconds
\* right before and after it
ProbeInstants ==
    {h * HourSecs + d : h \in (0 - MaxProbeHours)..MaxProbeHours, d \in {-1, 0, 1}}

InitDayBounds ==
    /\ InitProgram
    /\ fn_in \in ProbeInstants
    /\ fn_out = {}

CallDayBounds ==
    /\ fn_out = {}
    /\ fn_out' = {day_bounds_22utc(fn_in)}
    /\ UNCHANGED <<now, api_good, entry_state, hass_data, sensor_setup, entities,
                   listeners, country, vat_percent, cache, cache_window, unsub_timer,
                   data, call, fetched, tick, sched_op, fn_in>>

SpecDayBounds == InitDayBounds /\ [][CallDayBounds]_vars

(* ------------------- the row loop and the averaging -------------------- *)
RECURSIVE SeqsUpTo(_, _)
SeqsUpTo(S, n) ==
    IF n = 0 THEN {<<>>}
    ELSE LET shorter == SeqsUpTo(S, n - 1)
         IN  shorter \cup {Append(q, x) : q \in {r \in shorter : Len(r) = n - 1}, x \in S}

\* rows of every kind the loop tells apart
TsValues ==
    { Null, Val("int", 3600), Val("float", 4500999), Val("bool", 1), Val("inf", 0),
      Val("digits", 900), Val("udigits", 0), Val("iso", 7200), Val("text", 0),
      Val("list", 0) }

PriceValues == { Null, Val("numstr", 200001), Val("text", 0), Val("list", 0) }

WideRows ==
    {NotAMapping}
    \cup { MkRow(f) : f \in [timestamp : TsValues, ts : {Null},
                             ee : {Val("num", 1234567)}, price : {Null}] }
    \cup { MkRow(f) : f \in [timestamp : {Null, Val("text", 0)}, ts : {Val("int", 1800)},
                             ee : {Val("num", 7654321)}, price : {Null}] }
    \cup { MkRow(f) : f \in [timestamp : {Val("int", 3600)}, ts : {Null},
                             ee : PriceValues, price : {Null, Val("num", 5000)}] }

\* valid rows in four hours, one of them before the epoch
QuarterRows ==
    { MkRow([timestamp |-> Val("int", t), ee |-> Val("num", 1000003 + 7 * t)]) :
        t \in {-900, 0, 900, 3599, 3600, 7200} }

RowInputs ==
    [rows : SeqsUpTo(WideRows, MaxRows) \cup SeqsUpTo(QuarterRows, MaxQuarterRows),
     vat : {0, DefaultVat}]

InitRows ==
    /\ InitProgram
    /\ fn_in \in RowInputs
    /\ fn_out = {}

\* lines 138-203 of _async_update_data on the given row list
CallBuild ==
    /\ fn_out = {}
    /\ fn_out' = {BuildResult(fn_in.rows, country, fn_in.vat, day_bounds_22utc(now))}
    /\ UNCHANGED <<now, api_good, entry_state, hass_data, sensor_setup, entities,
                   listeners, country, vat_percent, cache, cache_window, unsub_timer,
                   data, call, fetched, tick, sched_op, fn_in>>

SpecRows == InitRows /\ [][CallBuild]_vars

(* =============================== claims =============================== *)
HasCoordinator ==
    \E e \in hass_data : e.entry_id = ENTRY_ID /\ "coordinator" \in DOMAIN e.dict

SensorIds ==
    {"elering_quarter_price_mwh", "elering_quarter_price_s_per_kwh",
     "elering_hourly_avg_mwh", "elering_hourly_avg_s_per_kwh"}

\* C1: once the integration's async_setup_entry has stored the entry's data and
\* the first refresh has succeeded, the sensor platform's async_setup_entry
\* completes without raising and registers exactly the four sensors.
C1_SensorsRegistered ==
    entry_state = "loaded" => (sensor_setup = "ok" /\ entities = SensorIds)

\* C2: a call made in a window for which this coordinator already fetched
\* successfully issues no HTTP request and returns that fetch's result; a call
\* made in a window with no successful fetch yet (the first one after a
\* 22:00Z boundary among them) issues an HTTP request.
C2_DayWindowCache ==
    \A c \in call :
        /\ c.prior # {} => (~c.http /\ c.outcome = "cached" /\ c.ret = c.prior)
        /\ c.prior = {} => c.http

C2_Witness ==
    /\ \E c \in call : c.outcome = "cached" /\ c.ret = c.prior
    /\ Cardinality({<<res.start_utc, res.end_utc>> : res \in fetched}) = 2

IsTickStep == now' # now /\ now' % QuarterSecs = 0

FailureLabels == {"transport_error", "http_error", "not_json", "no_row_list"}

\* C3: a call that meets a transport error or timeout, a status other than
\* 200, a body that is not JSON or a JSON without a row list fails with
\* UpdateFailed and leaves _cache and _cache_window as they were; the tick
\* after a failed call calls _async_update_data again, and that call issues an
\* HTTP request instead of returning cached data.
C3_FailureRetry ==
    [][ /\ \A c \in call' :
              /\ c.label \in FailureLabels =>
                    /\ c.outcome = "failed"
                    /\ c.exc = "UpdateFailed"
                    /\ cache' = c.pre_cache
                    /\ cache_window' = c.pre_window
              /\ c.outcome = "failed" => c.label \in FailureLabels
        /\ (IsTickStep /\ unsub_timer # None /\ \E c \in call : c.outcome = "failed")
              => \E c \in call' : c.after_failure /\ c.http /\ c.outcome # "cached"
      ]_vars

C3_Witness ==
    \E c \in call :
        /\ c.after_failure
        /\ c.outcome = "failed"
        /\ c.pre_cache # {}
        /\ cache = c.pre_cache

\* C4: the coordinator holds at most one active subscription, the one
\* _unsub_timer names; a tick triggers exactly one refresh request while the
\* subscription is active and none while it is not; after stop_scheduler
\* _unsub_timer is None and nothing is subscribed.
C4_Scheduler ==
    /\ Cardinality(listeners) <= 1
    /\ listeners = unsub_timer
    /\ \A t \in tick : t.requests = IF t.active THEN 1 ELSE 0
    /\ sched_op \in {"stop", "stop_noop"} => (unsub_timer = None /\ listeners = {})
    /\ sched_op \in {"start", "start_noop"} => Cardinality(listeners) = 1

C4_Witness ==
    /\ sched_op = "start_noop"
    /\ tick = {[active |-> TRUE, requests |-> 1]}
    /\ call # {}

RECURSIVE SumPrices(_, _)
SumPrices(quarters, idx) ==
    IF idx = {} THEN 0
    ELSE LET i == CHOOSE x \in idx : TRUE
         IN  quarters[i].price + SumPrices(quarters, idx \ {i})

\* C5: hours has exactly one entry per distinct hour start among the quarters,
\* in strictly ascending order, each the arithmetic mean of the prices of the
\* quarters of that hour, every quarter counted once; hours is empty exactly
\* when quarters is empty.
C5_HourlyAveraging ==
    \A out \in fn_out : \A res \in out.result :
        LET Q == res.quarters
            H == res.hours
            InHour(h) == {i \in DOMAIN Q : HourOf(Q[i].ts) = h}
        IN  /\ {H[k].ts : k \in DOMAIN H} = {HourOf(Q[i].ts) : i \in DOMAIN Q}
            /\ \A k \in DOMAIN H, m \in DOMAIN H : k < m => H[k].ts < H[m].ts
            /\ \A k \in DOMAIN H :
                  /\ H[k].price.den = Cardinality(InHour(H[k].ts))
                  /\ H[k].price.num = SumPrices(Q, InHour(H[k].ts))
            /\ (H = <<>>) <=> (Q = <<>>)

C5_Witness ==
    \E out \in fn_out : \E res \in out.result :
        /\ Len(res.hours) >= 3
        /\ \E k \in DOMAIN res.hours : res.hours[k].price.den >= 2
        /\ fn_in.rows[1].f.timestamp.v > fn_in.rows[2].f.timestamp.v

At22(t) == t % DaySecs = BoundaryHour * HourSecs

\* C6: _day_bounds_22utc(now) is (start, end) with both at 22:00:00Z, end 24
\* hours after start and start <= now < end; at 22:00:00Z exactly the window
\* starts at now, and one time unit earlier it ends at the coming 22:00:00Z.
C6_DayBounds ==
    \A b \in fn_out :
        /\ At22(b[1]) /\ At22(b[2])
        /\ b[2] = b[1] + DaySecs
        /\ b[1] <= fn_in /\ fn_in < b[2]
        /\ At22(fn_in) => b[1] = fn_in
        /\ At22(fn_in + 1) => b[2] = fn_in + 1

C6_Witness ==
    /\ fn_out # {}
    /\ At22(fn_in)
    /\ fn_in < 0

\* the entry the claim gives a row, if any
ClaimEntry(row, ctry, vat) ==
    LET ts_raw == IF ~row.dict THEN Null
                  ELSE IF RowGet(row, "timestamp") # Null THEN RowGet(row, "timestamp")
                  ELSE RowGet(row, "ts")
        pr_raw == IF ~row.dict THEN Null
                  ELSE IF RowGet(row, ctry) # Null THEN RowGet(row, ctry)
                  ELSE RowGet(row, "price")
        ts == CASE ts_raw.t \in {"int", "bool", "digits", "iso"} -> {ts_raw.v}
                [] ts_raw.t = "float" -> {TruncMilli(ts_raw.v)}
                [] OTHER -> {}
    IN  IF pr_raw.t \in {"num", "numstr"}
        THEN {[ts |-> t, price |-> RoundDiv(pr_raw.v * (100 + vat), 100)] : t \in ts}
        ELSE {}

\* C7: the refresh does not raise whatever the rows hold, and quarters holds
\* exactly one entry {ts, price * (1 + vat/100)} per row that is a mapping with
\* a usable timestamp and a numeric price, ascending by ts.
C7_RowNormalization ==
    \A out \in fn_out :
        /\ ~out.raised
        /\ \A res \in out.result :
             LET Q == res.quarters
                 rows == fn_in.rows
                 entries == UNION {ClaimEntry(rows[i], country, fn_in.vat) : i \in DOMAIN rows}
                              \cup {Q[k] : k \in DOMAIN Q}
             IN  /\ \A k \in DOMAIN Q, m \in DOMAIN Q : k < m => Q[k].ts <= Q[m].ts
                 /\ \A e \in entries :
                       Cardinality({k \in DOMAIN Q : Q[k] = e})
                         = Cardinality({i \in DOMAIN rows :
                                          e \in ClaimEntry(rows[i], country, fn_in.vat)})

\* the quarters of the claim restricted to row lists that hold no "inf" and no
\* "udigits" timestamp (used to see that C7 fails on those alone)
C7_WithoutRaisingRows ==
    (\A i \in DOMAIN fn_in.rows :
        ~fn_in.rows[i].dict
        \/ (LET f == fn_in.rows[i].f
            IN  f.timestamp.t \notin {"inf", "udigits"}))
    => C7_RowNormalization

DataGood ==
    \E res \in data :
        /\ res.quarters # <<>>
        /\ <<res.start_utc, res.end_utc>> = day_bounds_22utc(now)

\* C8: once the API answers every request with valid rows and the scheduler
\* keeps ticking, data comes to hold a non-empty quarters list for the current
\* window (stated for the instants whose window ends within the modelled time).
C8_EventualData ==
    (api_good /\ unsub_timer # None /\ day_bounds_22utc(now)[2] <= MaxNow)
        ~> (DataGood \/ unsub_timer = None)

C8_Witness ==
    /\ api_good
    /\ unsub_timer # None
    /\ DataGood
    /\ \E res \in fetched : res.quarters = <<>>

\* C9: hass.data[DOMAIN] holds a coordinator for the entry if and only if that
\* coordinator's scheduler subscription is active.
C9_LifecycleConsistency == HasCoordinator <=> unsub_timer # None

\* C10: a quarter-price sensor's value, when not None, is the price of the
\* quarters entry with ts <= now < ts + 900, an hourly sensor's the price of
\* the hours entry of the current hour; with no such entry the value is None.
C10_CurrentSlotValues ==
    LET Q == QuartersOf(data)
        H == HoursOfData(data)
        cur == {i \in DOMAIN Q : Q[i].ts <= now /\ now < Q[i].ts + QuarterSecs}
        curh == {k \in DOMAIN H : H[k].ts = HourOf(now)}
    IN  /\ \A v \in QuarterPriceMWh(data, now) : \E i \in cur : v = Round2(Q[i].price, 1)
        /\ \A v \in QuarterPriceSkWh(data, now) : \E i \in cur : v = Round2(Q[i].price, 10)
        /\ \A v \in HourlyAvgMWh(data, now) :
              \E k \in curh : v = Round2(H[k].price.num, H[k].price.den)
        /\ \A v \in HourlyAvgSkWh(data, now) :
              \E k \in curh : v = Round2(H[k].price.num, H[k].price.den * 10)

====
